---- MODULE Spec2Model ----
(***************************************************************************)
(* Model of the PersonaGuess backend (src/backend/main.py and              *)
(* src/backend/improved_similarity.py): the similarity primitives, the     *)
(* ranking of a population against a secret person, and the game-session   *)
(* endpoints built on it.                                                  *)
(*                                                                         *)
(* Numbers.  Similarities are exact rationals represented as integers in   *)
(* ticks of 1/Unit (Unit ticks = 1.0).  Unit is chosen so that every       *)
(* division the code performs on the modelled inputs is exact: cosines of  *)
(* the catalogue vectors have denominators 1, 5 or 25, Jaccard values have *)
(* denominators 1..3, achievement ratios 1 or 2, and the weights are       *)
(* hundredths of hundredths.  Floating-point rounding is not modelled.     *)
(***************************************************************************)
EXTENDS Integers, Sequences, FiniteSets, TLC

VARIABLES PERSON_CACHE, IMPROVED_EMBEDDINGS_CACHE, GAME_SESSIONS, phase, response

vars == <<PERSON_CACHE, IMPROVED_EMBEDDINGS_CACHE, GAME_SESSIONS, phase, response>>

(***************************************************************************)
(* Bounds of the model.                                                    *)
(***************************************************************************)
MaxPersons == 3
MaxSessions == 2
MaxGuesses == 2

\* The longest vector the pure functions are called with.
MaxDim == 2

Unit == 10000 * 150

(***************************************************************************)
(* Program constants (main.py:32-34), in tenths.                           *)
(***************************************************************************)
W_NARRATIVE == 5
W_FACTUAL == 3
W_RELATIONAL == 2
WeightDen == 10

IMPROVED_SIMILARITY_AVAILABLE == TRUE

(***************************************************************************)
(* Small helpers.                                                          *)
(***************************************************************************)
Range(s) == {s[i] : i \in DOMAIN s}

Abs(x) == IF x < 0 THEN -x ELSE x

Max2(a, b) == IF a >= b THEN a ELSE b

Min2(a, b) == IF a <= b THEN a ELSE b

RECURSIVE Dot(_, _)
Dot(u, v) == IF u = <<>> THEN 0 ELSE Head(u) * Head(v) + Dot(Tail(u), Tail(v))

\* np.linalg.norm on a vector whose norm is an integer (all catalogue vectors).
Norm(v) == LET ss == Dot(v, v) IN CHOOSE r \in 0..ss : r * r = ss

Get(d, k, default) == IF k \in DOMAIN d THEN d[k] ELSE default

(***************************************************************************)
(* main.py:40-50, the primitives of the backend.                           *)
(***************************************************************************)
\* Jaccard that divides by the sum of the two sizes instead of the size of
\* the union.
jaccard_similarity_sum_of_sizes(set1, set2) ==
  LET intersection == Cardinality(set1 \cap set2)
      union == Cardinality(set1) + Cardinality(set2)
  IN IF union # 0 THEN (intersection * Unit) \div union ELSE 0

jaccard_similarity(set1, set2) ==
  LET intersection == Cardinality(set1 \cap set2)
      union == Cardinality(set1 \cup set2)
  IN IF union # 0 THEN (intersection * Unit) \div union ELSE 0

\* Cosine that counts two zero vectors of one length as identical.
cosine_similarity_zero_alike(vec1, vec2) ==
  IF Len(vec1) # Len(vec2) THEN 0
  ELSE IF Norm(vec1) = 0 /\ Norm(vec2) = 0 THEN Unit
  ELSE IF Norm(vec1) = 0 \/ Norm(vec2) = 0 THEN 0
  ELSE (Dot(vec1, vec2) * Unit) \div (Norm(vec1) * Norm(vec2))

cosine_similarity(vec1, vec2) ==
  IF Len(vec1) # Len(vec2) \/ Norm(vec1) = 0 \/ Norm(vec2) = 0
  THEN 0
  ELSE (Dot(vec1, vec2) * Unit) \div (Norm(vec1) * Norm(vec2))

(***************************************************************************)
(* improved_similarity.py:10-29, the primitives of the improved module.    *)
(***************************************************************************)
improved_cosine_similarity(vec1, vec2) ==
  IF Len(vec1) # Len(vec2) \/ Norm(vec1) = 0 \/ Norm(vec2) = 0
  THEN 0
  ELSE (Dot(vec1, vec2) * Unit) \div (Norm(vec1) * Norm(vec2))

\* Jaccard that counts two empty sets as identical.
improved_jaccard_similarity_empty_alike(set1, set2) ==
  IF set1 = {} /\ set2 = {}
  THEN Unit
  ELSE LET intersection == Cardinality(set1 \cap set2)
           union == Cardinality(set1 \cup set2)
       IN IF union > 0 THEN (intersection * Unit) \div union ELSE 0

improved_jaccard_similarity(set1, set2) ==
  IF set1 = {} /\ set2 = {}
  THEN 0
  ELSE LET intersection == Cardinality(set1 \cap set2)
           union == Cardinality(set1 \cup set2)
       IN IF union > 0 THEN (intersection * Unit) \div union ELSE 0

(***************************************************************************)
(* improved_similarity.py:32-83.  A metadata record is a function from     *)
(* some of the keys career_domain, era_category, achievement_score,        *)
(* thematic_tags; a missing key reads as the default of the code's .get(). *)
(* The result is the score; components is the breakdown.                   *)
(***************************************************************************)
era_order == <<"pre_boomer", "boomer", "gen_x", "millennial", "millennial_late", "gen_z", "unknown">>

EraIndex(e) == CHOOSE i \in DOMAIN era_order : era_order[i] = e

\* Partial credit for any two eras at most one step apart.
era_match_near(metadata1, metadata2) ==
  LET era_equal == IF Get(metadata1, "era_category", "None") = Get(metadata2, "era_category", "None")
                   THEN Unit ELSE 0
      era1_idx == EraIndex(Get(metadata1, "era_category", "unknown"))
      era2_idx == EraIndex(Get(metadata2, "era_category", "unknown"))
      era_distance == Abs(era1_idx - era2_idx)
  IN IF era_distance <= 1 THEN Unit \div 2 ELSE era_equal

\* improved_similarity.py:55-65.
era_match(metadata1, metadata2) ==
  LET era_equal == IF Get(metadata1, "era_category", "None") = Get(metadata2, "era_category", "None")
                   THEN Unit ELSE 0
      era1_idx == EraIndex(Get(metadata1, "era_category", "unknown"))
      era2_idx == EraIndex(Get(metadata2, "era_category", "unknown"))
      era_distance == Abs(era1_idx - era2_idx)
  IN IF era_distance = 1 THEN Unit \div 2 ELSE era_equal

\* Achievement similarity without the floor of the denominator: equal scores
\* count as fully similar.
achievement_similarity_unfloored(metadata1, metadata2) ==
  LET achievement1 == Get(metadata1, "achievement_score", 0)
      achievement2 == Get(metadata2, "achievement_score", 0)
      max_achievement == Max2(achievement1, achievement2)
      min_achievement == Min2(achievement1, achievement2)
  IN IF max_achievement = 0 THEN Unit ELSE (min_achievement * Unit) \div max_achievement

\* improved_similarity.py:67-74.
achievement_similarity(metadata1, metadata2) ==
  LET achievement1 == Get(metadata1, "achievement_score", 0)
      achievement2 == Get(metadata2, "achievement_score", 0)
      max_achievement == Max2(Max2(achievement1, achievement2), 1)
      min_achievement == Min2(achievement1, achievement2)
  IN (min_achievement * Unit) \div max_achievement

metadata_components(metadata1, metadata2) ==
  LET domain_match == IF Get(metadata1, "career_domain", "None") = Get(metadata2, "career_domain", "None")
                      THEN Unit ELSE 0
      tag_similarity == improved_jaccard_similarity(Get(metadata1, "thematic_tags", {}),
                                                    Get(metadata2, "thematic_tags", {}))
  IN [domain_match |-> domain_match,
      era_match |-> era_match(metadata1, metadata2),
      achievement_similarity |-> achievement_similarity(metadata1, metadata2),
      tag_similarity |-> tag_similarity]

\* The weighted sum with the tag weight lowered to 0.25.
calculate_metadata_similarity_light_tags(metadata1, metadata2) ==
  LET c == metadata_components(metadata1, metadata2)
  IN (c.domain_match * 30 + c.era_match * 20 + c.achievement_similarity * 20
        + c.tag_similarity * 25) \div 100

calculate_metadata_similarity(metadata1, metadata2) ==
  LET c == metadata_components(metadata1, metadata2)
  IN (c.domain_match * 30 + c.era_match * 20 + c.achievement_similarity * 20
        + c.tag_similarity * 30) \div 100

(***************************************************************************)
(* improved_similarity.py:86-183: the overall_score of the multi-aspect    *)
(* comparison of two enriched records [embeddings, metadata].              *)
(***************************************************************************)
calculate_improved_narrative_similarity(person1_data, person2_data) ==
  LET embeddings1 == Get(person1_data, "embeddings", <<>>)
      embeddings2 == Get(person2_data, "embeddings", <<>>)
      metadata1 == Get(person1_data, "metadata", <<>>)
      metadata2 == Get(person2_data, "metadata", <<>>)
      Aspect(k) == improved_cosine_similarity(Get(embeddings1, k, <<>>), Get(embeddings2, k, <<>>))
      career_sim == Aspect("career_embedding")
      achievement_sim == Aspect("achievement_embedding")
      bio_sim == Aspect("biographical_embedding")
      influence_sim == Aspect("influence_embedding")
      combined_sim == Aspect("combined_embedding")
      metadata_sim == calculate_metadata_similarity(metadata1, metadata2)
  IN (20 * career_sim + 15 * achievement_sim + 20 * bio_sim + 10 * influence_sim
        + 20 * combined_sim + 15 * metadata_sim) \div 100

(***************************************************************************)
(* main.py:52-67 and improved_similarity.py:186-209: the explanation of a  *)
(* narrative score.  A score is in ticks of 1/Unit; similarity_result is a *)
(* record with overall_score and, possibly, explanation.                   *)
(***************************************************************************)
\* The tiers with the lower bound left out of each.
get_narrative_explanation_exclusive(similarity) ==
  IF similarity > (9 * Unit) \div 10
  THEN "Extremely high similarity - narratives are nearly identical in themes and context"
  ELSE IF similarity > (8 * Unit) \div 10
  THEN "Very high similarity - narratives share strong thematic and contextual similarities"
  ELSE IF similarity > (7 * Unit) \div 10
  THEN "High similarity - narratives have significant thematic overlap and similar contexts"
  ELSE IF similarity > (6 * Unit) \div 10
  THEN "Moderate similarity - narratives share some common themes and contexts"
  ELSE IF similarity > (5 * Unit) \div 10
  THEN "Low similarity - narratives have limited thematic overlap"
  ELSE IF similarity > (3 * Unit) \div 10
  THEN "Very low similarity - narratives share few common elements"
  ELSE "Minimal similarity - narratives are largely unrelated"

get_narrative_explanation(similarity) ==
  IF similarity >= (9 * Unit) \div 10
  THEN "Extremely high similarity - narratives are nearly identical in themes and context"
  ELSE IF similarity >= (8 * Unit) \div 10
  THEN "Very high similarity - narratives share strong thematic and contextual similarities"
  ELSE IF similarity >= (7 * Unit) \div 10
  THEN "High similarity - narratives have significant thematic overlap and similar contexts"
  ELSE IF similarity >= (6 * Unit) \div 10
  THEN "Moderate similarity - narratives share some common themes and contexts"
  ELSE IF similarity >= (5 * Unit) \div 10
  THEN "Low similarity - narratives have limited thematic overlap"
  ELSE IF similarity >= (3 * Unit) \div 10
  THEN "Very low similarity - narratives share few common elements"
  ELSE "Minimal similarity - narratives are largely unrelated"

get_improved_narrative_explanation(similarity_result) ==
  LET score == similarity_result["overall_score"]
      base == IF score >= (85 * Unit) \div 100 THEN "Extremely high narrative similarity"
              ELSE IF score >= (75 * Unit) \div 100 THEN "Very high narrative similarity"
              ELSE IF score >= (65 * Unit) \div 100 THEN "High narrative similarity"
              ELSE IF score >= (50 * Unit) \div 100 THEN "Moderate narrative similarity"
              ELSE IF score >= (35 * Unit) \div 100 THEN "Low narrative similarity"
              ELSE IF score >= (20 * Unit) \div 100 THEN "Very low narrative similarity"
              ELSE "Minimal narrative similarity"
      specific == Get(similarity_result, "explanation", "")
  IN IF specific # "" THEN base \o " - " \o specific ELSE base

(***************************************************************************)
(* PERSON_CACHE is a dict in insertion order: a sequence of person records *)
(* with pairwise different qid.  IMPROVED_EMBEDDINGS_CACHE is a function   *)
(* from qids to enriched records.                                          *)
(***************************************************************************)
CacheKeys == {PERSON_CACHE[i].qid : i \in DOMAIN PERSON_CACHE}

CacheGet(qid) == PERSON_CACHE[CHOOSE i \in DOMAIN PERSON_CACHE : PERSON_CACHE[i].qid = qid]

\* Narrative similarity that always takes the plain vectors, enriched or not.
calculate_narrative_similarity_plain(person_qid, secret_qid) ==
  cosine_similarity(CacheGet(person_qid).narrative_vector,
                    CacheGet(secret_qid).narrative_vector)

(***************************************************************************)
(* main.py:69-85.                                                          *)
(***************************************************************************)
calculate_narrative_similarity(person_qid, secret_qid) ==
  IF IMPROVED_SIMILARITY_AVAILABLE
       /\ person_qid \in DOMAIN IMPROVED_EMBEDDINGS_CACHE
       /\ secret_qid \in DOMAIN IMPROVED_EMBEDDINGS_CACHE
  THEN calculate_improved_narrative_similarity(IMPROVED_EMBEDDINGS_CACHE[person_qid],
                                               IMPROVED_EMBEDDINGS_CACHE[secret_qid])
  ELSE cosine_similarity(CacheGet(person_qid).narrative_vector,
                         CacheGet(secret_qid).narrative_vector)

(***************************************************************************)
(* main.py:96-112: the score record of one person against the secret.      *)
(***************************************************************************)
\* Mutant: the factual and the relational weight exchanged.
final_score_swapped(sim_n, sim_f, sim_r) ==
  (W_NARRATIVE * sim_n + W_RELATIONAL * sim_f + W_FACTUAL * sim_r) \div WeightDen

final_score(sim_n, sim_f, sim_r) ==
  (W_NARRATIVE * sim_n + W_FACTUAL * sim_f + W_RELATIONAL * sim_r) \div WeightDen

score_entry(person_data, secret_qid) ==
  LET secret_person == CacheGet(secret_qid)
      sim_n == calculate_narrative_similarity(person_data.qid, secret_qid)
      sim_f == jaccard_similarity(person_data.factual_qids, secret_person.factual_qids)
      sim_r == jaccard_similarity(person_data.relational_qids, secret_person.relational_qids)
  IN [qid |-> person_data.qid, label |-> person_data.label,
      score |-> final_score(sim_n, sim_f, sim_r),
      sim_narrative |-> sim_n, sim_factual |-> sim_f, sim_relational |-> sim_r]

all_scores(secret_qid) ==
  [i \in DOMAIN PERSON_CACHE |-> score_entry(PERSON_CACHE[i], secret_qid)]

(***************************************************************************)
(* main.py:114: sorted(all_scores, key=score, reverse=True).  Python's     *)
(* sort is stable, also with reverse=True: an item goes behind every item  *)
(* already placed whose score is greater or equal.                         *)
(***************************************************************************)
\* A sort that puts an entry in front of the entries of equal score.
sort_insert_before_ties(s, x) ==
  LET k == Cardinality({i \in DOMAIN s : s[i].score > x.score})
  IN SubSeq(s, 1, k) \o <<x>> \o SubSeq(s, k + 1, Len(s))

\* Mutant: the sort without reverse=True.
sort_insert_ascending(s, x) ==
  LET k == Cardinality({i \in DOMAIN s : s[i].score <= x.score})
  IN SubSeq(s, 1, k) \o <<x>> \o SubSeq(s, k + 1, Len(s))

sort_insert(s, x) ==
  LET k == Cardinality({i \in DOMAIN s : s[i].score >= x.score})
  IN SubSeq(s, 1, k) \o <<x>> \o SubSeq(s, k + 1, Len(s))

RECURSIVE sorted_desc(_)
sorted_desc(s) ==
  IF s = <<>> THEN <<>>
  ELSE sort_insert(sorted_desc(SubSeq(s, 1, Len(s) - 1)), s[Len(s)])

(***************************************************************************)
(* main.py:88-123.  The result is [status, ranking]: 404 with no ranking   *)
(* when the secret is unknown, else 200 and the ranked list.               *)
(***************************************************************************)
\* Mutant: equal scores share a rank.
ranked_shared(sorted_ranking) ==
  [i \in DOMAIN sorted_ranking |->
     [qid |-> sorted_ranking[i].qid, label |-> sorted_ranking[i].label,
      rank |-> 1 + Cardinality({j \in DOMAIN sorted_ranking :
                                  sorted_ranking[j].score > sorted_ranking[i].score}),
      score |-> sorted_ranking[i].score,
      sim_narrative |-> sorted_ranking[i].sim_narrative,
      sim_factual |-> sorted_ranking[i].sim_factual,
      sim_relational |-> sorted_ranking[i].sim_relational]]

ranked(sorted_ranking) ==
  [i \in DOMAIN sorted_ranking |->
     [qid |-> sorted_ranking[i].qid, label |-> sorted_ranking[i].label, rank |-> i,   \* i + 1 for enumerate's 0-based i
      score |-> sorted_ranking[i].score,
      sim_narrative |-> sorted_ranking[i].sim_narrative,
      sim_factual |-> sorted_ranking[i].sim_factual,
      sim_relational |-> sorted_ranking[i].sim_relational]]

\* Mutant: an unknown secret is not reported.
calculate_ranking_for_secret_silent(secret_qid) ==
  IF secret_qid \notin CacheKeys
  THEN [status |-> 200, ranking |-> <<>>]
  ELSE [status |-> 200, ranking |-> ranked(sorted_desc(all_scores(secret_qid)))]

calculate_ranking_for_secret(secret_qid) ==
  IF secret_qid \notin CacheKeys
  THEN [status |-> 404, ranking |-> <<>>]
  ELSE [status |-> 200, ranking |-> ranked(sorted_desc(all_scores(secret_qid)))]

(***************************************************************************)
(* The data the loader can find.  Catalogue is the persons table with the  *)
(* property sets and the narrative vector of each person; EnrichedFiles    *)
(* are the files of the narrative_embeddings directory.                    *)
(*   Q1, Q2: the two persons of the scenario of the specification.         *)
(*   Q3: same attributes as Q1.  Q4: nothing known (no vector, no sets).   *)
(*   Q5, Q6: richer sets, vectors at other angles.                         *)
(***************************************************************************)
Qids == {"Q1", "Q2", "Q3", "Q4", "Q5", "Q6", "Q7", "Q8"}

PersonRow(q, l, f, r, v) ==
  [qid |-> q, label |-> l, factual_qids |-> f, relational_qids |-> r, narrative_vector |-> v]

Catalogue ==
  [q \in Qids |->
     CASE q = "Q1" -> PersonRow(q, "Ann", {"occ:singer"}, {}, <<1, 0>>)
       [] q = "Q2" -> PersonRow(q, "Bob", {"occ:singer"}, {}, <<0, 1>>)
       [] q = "Q3" -> PersonRow(q, "Cyd", {"occ:singer"}, {}, <<1, 0>>)
       [] q = "Q4" -> PersonRow(q, "Dee", {}, {}, <<>>)
       [] q = "Q5" -> PersonRow(q, "Eve", {"occ:singer", "cit:us"}, {"rel:a"}, <<3, 4>>)
       [] q = "Q6" -> PersonRow(q, "Fay", {"cit:us"}, {"rel:a", "rel:b"}, <<-1, 0>>)
       [] q = "Q7" -> PersonRow(q, "Gus", {"occ:singer", "cit:us"}, {"rel:a"}, <<3, 4>>)
       [] q = "Q8" -> PersonRow(q, "Hal", {"occ:painter"}, {"rel:c"}, <<0, 0>>)]

EnrichedFiles ==
  [q \in {"Q1", "Q2", "Q4"} |->
     CASE q = "Q1" ->
            [qid |-> q,
             embeddings |-> [career_embedding |-> <<1, 0>>, achievement_embedding |-> <<0, 1>>,
                             biographical_embedding |-> <<3, 4>>, combined_embedding |-> <<1, 0>>],
             metadata |-> [career_domain |-> "music", era_category |-> "gen_x",
                           achievement_score |-> 50, thematic_tags |-> {"pop"}]]
       [] q = "Q2" ->
            [qid |-> q,
             embeddings |-> [career_embedding |-> <<4, 3>>, achievement_embedding |-> <<0, 1>>,
                             biographical_embedding |-> <<3, 4>>, influence_embedding |-> <<1, 0>>,
                             combined_embedding |-> <<0, 1>>],
             metadata |-> [career_domain |-> "music", era_category |-> "millennial",
                           achievement_score |-> 100, thematic_tags |-> {"pop", "rock"}]]
       [] q = "Q4" ->
            [qid |-> q, embeddings |-> <<>>, metadata |-> [achievement_score |-> 0]]]

\* The orderings of at most n different persons of the catalogue.
Populations(n) ==
  {s \in UNION {[1..k -> Qids] : k \in 0..n} : \A i, j \in DOMAIN s : i # j => s[i] # s[j]}

RowsOf(qs) == [i \in DOMAIN qs |-> Catalogue[qs[i]]]

EnrichedOf(S) == [q \in S |-> EnrichedFiles[q]]

(***************************************************************************)
(* Responses.  Every response carries the same fields; the ones an         *)
(* endpoint does not return are left at their defaults.                    *)
(***************************************************************************)
Resp(op, status, sid, qid) ==
  [op |-> op, status |-> status, sessionId |-> sid, qid |-> qid,
   ranking |-> <<>>, result |-> <<>>, isCorrect |-> FALSE, gameWon |-> FALSE,
   details |-> <<>>]

\* Session id 0 stands for a request without a session.
NoResponse == Resp("none", 0, 0, "")

(***************************************************************************)
(* The ranking engine on its own: any population, any enriched subset,     *)
(* calculate_ranking_for_secret called with any id.                        *)
(***************************************************************************)
RequestQids == Qids \cup {"Q0"}

\* The ids a client of the server names: the loaded ones and an unknown one.
ClientQids == CacheKeys \cup {"Q0"}

InitRank ==
  /\ \E qs \in Populations(MaxPersons) : PERSON_CACHE = RowsOf(qs)
  /\ \E S \in SUBSET DOMAIN EnrichedFiles : IMPROVED_EMBEDDINGS_CACHE = EnrichedOf(S)
  /\ GAME_SESSIONS = <<>>
  /\ phase = "serving"
  /\ response = NoResponse

\* A ranking call that keeps the last ranking returned and answers with it.
CallRanking_cached(secret_qid) ==
  /\ phase = "serving"
  /\ LET r == calculate_ranking_for_secret(secret_qid)
     IN response' = [Resp("calculate_ranking_for_secret", r.status, 0, secret_qid)
                       EXCEPT !.ranking = IF r.status = 200 /\ response.ranking # <<>>
                                          THEN response.ranking ELSE r.ranking]
  /\ UNCHANGED <<PERSON_CACHE, IMPROVED_EMBEDDINGS_CACHE, GAME_SESSIONS, phase>>

CallRanking(secret_qid) ==
  /\ phase = "serving"
  /\ LET r == calculate_ranking_for_secret(secret_qid)
     IN response' = [Resp("calculate_ranking_for_secret", r.status, 0, secret_qid)
                       EXCEPT !.ranking = r.ranking]
  /\ UNCHANGED <<PERSON_CACHE, IMPROVED_EMBEDDINGS_CACHE, GAME_SESSIONS, phase>>

(***************************************************************************)
(* scripts/preview_game.py: the ranking of the preview script, with its    *)
(* own weights and primitives, over the same PERSON_CACHE rows.            *)
(***************************************************************************)
preview_W_NARRATIVE == 5
preview_W_FACTUAL == 3
preview_W_RELATIONAL == 2

preview_jaccard_similarity(set1, set2) ==
  LET intersection == Cardinality(set1 \cap set2)
      union == Cardinality(set1 \cup set2)
  IN IF union # 0 THEN (intersection * Unit) \div union ELSE 0

preview_cosine_similarity(vec1, vec2) ==
  IF Len(vec1) # Len(vec2) \/ Norm(vec1) = 0 \/ Norm(vec2) = 0
  THEN 0
  ELSE (Dot(vec1, vec2) * Unit) \div (Norm(vec1) * Norm(vec2))

\* A preview score that leaves the relational similarity out.
preview_score_entry_two_parts(person_data, secret_person) ==
  LET sim_n == preview_cosine_similarity(person_data.narrative_vector,
                                         secret_person.narrative_vector)
      sim_f == preview_jaccard_similarity(person_data.factual_qids, secret_person.factual_qids)
      sim_r == preview_jaccard_similarity(person_data.relational_qids,
                                          secret_person.relational_qids)
  IN [qid |-> person_data.qid, label |-> person_data.label,
      score |-> (preview_W_NARRATIVE * sim_n + preview_W_FACTUAL * sim_f) \div WeightDen,
      sim_narrative |-> sim_n, sim_factual |-> sim_f, sim_relational |-> sim_r]

\* preview_game.py:96-125.
preview_score_entry(person_data, secret_person) ==
  LET sim_n == preview_cosine_similarity(person_data.narrative_vector,
                                         secret_person.narrative_vector)
      sim_f == preview_jaccard_similarity(person_data.factual_qids, secret_person.factual_qids)
      sim_r == preview_jaccard_similarity(person_data.relational_qids,
                                          secret_person.relational_qids)
  IN [qid |-> person_data.qid, label |-> person_data.label,
      score |-> (preview_W_NARRATIVE * sim_n + preview_W_FACTUAL * sim_f
                   + preview_W_RELATIONAL * sim_r) \div WeightDen,
      sim_narrative |-> sim_n, sim_factual |-> sim_f, sim_relational |-> sim_r]

\* preview_game.py:87-134: the empty list for an unknown secret, else the
\* entries sorted by score, descending and stable, each with its rank.
preview_calculate_ranking(secret_qid) ==
  IF secret_qid \notin CacheKeys
  THEN <<>>
  ELSE LET secret_person == CacheGet(secret_qid)
           preview_all_scores ==
             [i \in DOMAIN PERSON_CACHE |-> preview_score_entry(PERSON_CACHE[i], secret_person)]
           sorted_ranking == sorted_desc(preview_all_scores)
       IN [i \in DOMAIN sorted_ranking |->
             [qid |-> sorted_ranking[i].qid, label |-> sorted_ranking[i].label,
              rank |-> i, score |-> sorted_ranking[i].score,
              sim_narrative |-> sorted_ranking[i].sim_narrative,
              sim_factual |-> sorted_ranking[i].sim_factual,
              sim_relational |-> sorted_ranking[i].sim_relational]]

CallPreviewRanking(secret_qid) ==
  /\ phase = "serving"
  /\ response' = [Resp("preview_game.calculate_ranking", 200, 0, secret_qid)
                    EXCEPT !.ranking = preview_calculate_ranking(secret_qid)]
  /\ UNCHANGED <<PERSON_CACHE, IMPROVED_EMBEDDINGS_CACHE, GAME_SESSIONS, phase>>

\* No call made yet.  The functions called on their own keep no state
\* between calls, so every behaviour is one call.
Idle == response = NoResponse

NextRank ==
  \/ Idle /\ \E q \in RequestQids : CallRanking(q)
  \/ Idle /\ \E q \in RequestQids : CallPreviewRanking(q)

SpecRank == InitRank /\ [][NextRank]_vars

(***************************************************************************)
(* The server.  phase is "startup" until the lifespan hook has run         *)
(* load_data_into_cache (main.py:234-238); requests are served after it.   *)
(* The handlers are coroutines without an await: each runs to its end      *)
(* before the next request is handled.                                     *)
(***************************************************************************)
\* The session ids a client names: the existing ones and an unknown one.
ClientSessionIds == DOMAIN GAME_SESSIONS \cup {Cardinality(DOMAIN GAME_SESSIONS) + 1}

\* What the startup can find on disk: the rows in table order and the set
\* of persons with an embeddings file.  The first is the missing database.
Loads ==
  { <<(<<>>), {}>>,
    <<(<<"Q3", "Q1">>), {"Q1"}>> }

Init ==
  /\ PERSON_CACHE = <<>>
  /\ IMPROVED_EMBEDDINGS_CACHE = <<>>
  /\ GAME_SESSIONS = <<>>
  /\ phase = "startup"
  /\ response = NoResponse

\* main.py:147-232 with main.py:125-144.
load_data_into_cache ==
  /\ phase = "startup"
  /\ \E l \in Loads :
       /\ PERSON_CACHE' = RowsOf(l[1])
       /\ IMPROVED_EMBEDDINGS_CACHE' = EnrichedOf(l[2])
  /\ phase' = "serving"
  /\ UNCHANGED <<GAME_SESSIONS, response>>

\* The guesses logged so far, over all sessions (bounded by MaxGuesses).
RECURSIVE TotalGuesses(_)
TotalGuesses(S) ==
  IF S = {} THEN 0
  ELSE LET s == CHOOSE x \in S : TRUE
       IN Len(GAME_SESSIONS[s].guesses) + TotalGuesses(S \ {s})

\* Mutant: a resigned game is not seen as over.
IsFinished_won_only(session) == session["is_game_won"]

\* Mutant: the check that the game is over is missing.
NotFinished_never(session) == FALSE

\* Mutant: every session gets the same identifier.
new_session_id_reused ==
  IF GAME_SESSIONS = <<>> THEN Cardinality(DOMAIN GAME_SESSIONS) + 1
  ELSE CHOOSE s \in DOMAIN GAME_SESSIONS : TRUE

\* main.py:382 and main.py:419: the game is over.
IsFinished(session) == session["is_game_won"] \/ session["is_resigned"]

\* main.py:451 and main.py:471: the game is still running.
NotFinished(session) == ~session["is_game_won"] /\ ~session["is_resigned"]

\* main.py:360: uuid4 gives an identifier no session has yet.
new_session_id == Cardinality(DOMAIN GAME_SESSIONS) + 1

\* Mutant: the first item of the ranking, whoever it is.
find_result_first(ranking, qid) ==
  IF ranking = <<>> THEN <<>> ELSE <<ranking[1]>>

\* next(item for item in ranking if item["qid"] == qid, None), as a
\* sequence of at most one item.
find_result(ranking, qid) ==
  LET hits == {i \in DOMAIN ranking : ranking[i].qid = qid}
  IN IF hits = {} THEN <<>>
     ELSE <<ranking[CHOOSE i \in hits : \A j \in hits : i <= j]>>

\* main.py:348-352.
get_daily_ranking(secret_qid) ==
  /\ phase = "serving"
  /\ response' =
       IF secret_qid \notin CacheKeys
       THEN Resp("get_daily_ranking", 404, 0, secret_qid)
       ELSE LET r == calculate_ranking_for_secret(secret_qid)
            IN [Resp("get_daily_ranking", r.status, 0, secret_qid)
                  EXCEPT !.ranking = r.ranking]
  /\ UNCHANGED <<PERSON_CACHE, IMPROVED_EMBEDDINGS_CACHE, GAME_SESSIONS, phase>>

\* main.py:354-370.
start_game ==
  /\ phase = "serving"
  /\ IF PERSON_CACHE = <<>>
     THEN /\ response' = Resp("start_game", 503, 0, "")
          /\ UNCHANGED GAME_SESSIONS
     ELSE /\ Cardinality(DOMAIN GAME_SESSIONS) < MaxSessions
          /\ \E secret_qid \in CacheKeys :
               LET session_id == new_session_id
               IN /\ GAME_SESSIONS' =
                       [s \in DOMAIN GAME_SESSIONS \cup {session_id} |->
                          IF s = session_id
                          THEN [secret_qid |-> secret_qid, guesses |-> <<>>,
                                is_game_won |-> FALSE, is_resigned |-> FALSE,
                                ranking_calculated |-> FALSE]
                          ELSE GAME_SESSIONS[s]]
                  /\ response' = Resp("start_game", 200, session_id, "")
  /\ UNCHANGED <<PERSON_CACHE, IMPROVED_EMBEDDINGS_CACHE, phase>>

\* A guess log that takes every new entry at the front.
log_append_front(guesses, guessed_result) ==
  <<guessed_result>> \o guesses

\* main.py:401: session["guesses"].append(guessed_result).
log_append(guesses, guessed_result) ==
  Append(guesses, guessed_result)

\* A resignation that also empties the guess log of the session.
set_resigned_and_clear(session_id) ==
  [GAME_SESSIONS EXCEPT ![session_id].is_resigned = TRUE, ![session_id].guesses = <<>>]

\* A resignation flag kept for the whole process instead of per session.
set_resigned_all(session_id) ==
  [s \in DOMAIN GAME_SESSIONS |-> [GAME_SESSIONS[s] EXCEPT !.is_resigned = TRUE]]

\* main.py:432: session["is_resigned"] = True, on the session of the request.
set_resigned(session_id) ==
  [GAME_SESSIONS EXCEPT ![session_id].is_resigned = TRUE]

\* make_guess that takes a guess for correct when it has rank 1.
make_guess_top_rank_wins(session_id, guessed_qid) ==
  /\ phase = "serving"
  /\ IF PERSON_CACHE = <<>>
     THEN /\ response' = Resp("make_guess", 503, session_id, guessed_qid)
          /\ UNCHANGED GAME_SESSIONS
     ELSE IF session_id \notin DOMAIN GAME_SESSIONS
     THEN /\ response' = Resp("make_guess", 404, session_id, guessed_qid)
          /\ UNCHANGED GAME_SESSIONS
     ELSE LET session == GAME_SESSIONS[session_id]
              secret_qid == session.secret_qid
              r == calculate_ranking_for_secret(secret_qid)
              guessed_result == find_result(r.ranking, guessed_qid)
              is_correct == guessed_result # <<>> /\ guessed_result[1].rank = 1
          IN IF IsFinished(session)
             THEN /\ response' = Resp("make_guess", 400, session_id, guessed_qid)
                  /\ UNCHANGED GAME_SESSIONS
             ELSE IF guessed_qid \notin CacheKeys \/ r.status # 200 \/ guessed_result = <<>>
             THEN /\ response' = Resp("make_guess", 404, session_id, guessed_qid)
                  /\ UNCHANGED GAME_SESSIONS
             ELSE /\ TotalGuesses(DOMAIN GAME_SESSIONS) < MaxGuesses
                  /\ GAME_SESSIONS' =
                       [GAME_SESSIONS EXCEPT
                          ![session_id].is_game_won = IF is_correct THEN TRUE ELSE @,
                          ![session_id].guesses = log_append(@, guessed_result[1])]
                  /\ response' = [Resp("make_guess", 200, session_id, guessed_qid)
                                    EXCEPT !.isCorrect = is_correct, !.result = guessed_result,
                                           !.gameWon = is_correct]
  /\ UNCHANGED <<PERSON_CACHE, IMPROVED_EMBEDDINGS_CACHE, phase>>

\* main.py:372-407.
make_guess(session_id, guessed_qid) ==
  /\ phase = "serving"
  /\ IF PERSON_CACHE = <<>>
     THEN /\ response' = Resp("make_guess", 503, session_id, guessed_qid)
          /\ UNCHANGED GAME_SESSIONS
     ELSE IF session_id \notin DOMAIN GAME_SESSIONS
     THEN /\ response' = Resp("make_guess", 404, session_id, guessed_qid)
          /\ UNCHANGED GAME_SESSIONS
     ELSE LET session == GAME_SESSIONS[session_id]
              secret_qid == session.secret_qid
              r == calculate_ranking_for_secret(secret_qid)
              guessed_result == find_result(r.ranking, guessed_qid)
              is_correct == guessed_qid = secret_qid
          IN IF IsFinished(session)
             THEN /\ response' = Resp("make_guess", 400, session_id, guessed_qid)
                  /\ UNCHANGED GAME_SESSIONS
             ELSE IF guessed_qid \notin CacheKeys \/ r.status # 200 \/ guessed_result = <<>>
             THEN /\ response' = Resp("make_guess", 404, session_id, guessed_qid)
                  /\ UNCHANGED GAME_SESSIONS
             ELSE /\ TotalGuesses(DOMAIN GAME_SESSIONS) < MaxGuesses
                  /\ GAME_SESSIONS' =
                       [GAME_SESSIONS EXCEPT
                          ![session_id].is_game_won = IF is_correct THEN TRUE ELSE @,
                          ![session_id].guesses = log_append(@, guessed_result[1])]
                  /\ response' = [Resp("make_guess", 200, session_id, guessed_qid)
                                    EXCEPT !.isCorrect = is_correct, !.result = guessed_result,
                                           !.gameWon = is_correct]
  /\ UNCHANGED <<PERSON_CACHE, IMPROVED_EMBEDDINGS_CACHE, phase>>

\* resign_game that sets the flag before it looks whether the game is over.
resign_game_flag_first(session_id) ==
  /\ phase = "serving"
  /\ IF PERSON_CACHE = <<>>
     THEN /\ response' = Resp("resign_game", 503, session_id, "")
          /\ UNCHANGED GAME_SESSIONS
     ELSE IF session_id \notin DOMAIN GAME_SESSIONS
     THEN /\ response' = Resp("resign_game", 404, session_id, "")
          /\ UNCHANGED GAME_SESSIONS
     ELSE LET session == GAME_SESSIONS[session_id]
              secret_qid == session.secret_qid
              r == calculate_ranking_for_secret(secret_qid)
              secret_result == find_result(r.ranking, secret_qid)
          IN IF IsFinished(session)
             THEN /\ response' = Resp("resign_game", 400, session_id, "")
                  /\ GAME_SESSIONS' = set_resigned(session_id)
             ELSE IF r.status # 200
             THEN /\ response' = Resp("resign_game", r.status, session_id, secret_qid)
                  /\ UNCHANGED GAME_SESSIONS
             ELSE IF secret_result = <<>>
             THEN /\ response' = Resp("resign_game", 500, session_id, secret_qid)
                  /\ UNCHANGED GAME_SESSIONS
             ELSE /\ GAME_SESSIONS' = set_resigned(session_id)
                  /\ response' = [Resp("resign_game", 200, session_id, secret_qid)
                                    EXCEPT !.result = secret_result]
  /\ UNCHANGED <<PERSON_CACHE, IMPROVED_EMBEDDINGS_CACHE, phase>>

\* main.py:409-437.
resign_game(session_id) ==
  /\ phase = "serving"
  /\ IF PERSON_CACHE = <<>>
     THEN /\ response' = Resp("resign_game", 503, session_id, "")
          /\ UNCHANGED GAME_SESSIONS
     ELSE IF session_id \notin DOMAIN GAME_SESSIONS
     THEN /\ response' = Resp("resign_game", 404, session_id, "")
          /\ UNCHANGED GAME_SESSIONS
     ELSE LET session == GAME_SESSIONS[session_id]
              secret_qid == session.secret_qid
              r == calculate_ranking_for_secret(secret_qid)
              secret_result == find_result(r.ranking, secret_qid)
          IN IF IsFinished(session)
             THEN /\ response' = Resp("resign_game", 400, session_id, "")
                  /\ UNCHANGED GAME_SESSIONS
             ELSE IF r.status # 200
             THEN /\ response' = Resp("resign_game", r.status, session_id, secret_qid)
                  /\ UNCHANGED GAME_SESSIONS
             ELSE IF secret_result = <<>>
             THEN /\ response' = Resp("resign_game", 500, session_id, secret_qid)
                  /\ UNCHANGED GAME_SESSIONS
             ELSE /\ GAME_SESSIONS' = set_resigned(session_id)
                  /\ response' = [Resp("resign_game", 200, session_id, secret_qid)
                                    EXCEPT !.result = secret_result]
  /\ UNCHANGED <<PERSON_CACHE, IMPROVED_EMBEDDINGS_CACHE, phase>>

\* main.py:439-457.
get_ranking(session_id) ==
  /\ phase = "serving"
  /\ response' =
       IF PERSON_CACHE = <<>>
       THEN Resp("get_ranking", 503, session_id, "")
       ELSE IF session_id \notin DOMAIN GAME_SESSIONS
       THEN Resp("get_ranking", 404, session_id, "")
       ELSE IF NotFinished(GAME_SESSIONS[session_id])
       THEN Resp("get_ranking", 403, session_id, "")
       ELSE LET r == calculate_ranking_for_secret(GAME_SESSIONS[session_id].secret_qid)
            IN [Resp("get_ranking", r.status, session_id, "") EXCEPT !.ranking = r.ranking]
  /\ UNCHANGED <<PERSON_CACHE, IMPROVED_EMBEDDINGS_CACHE, GAME_SESSIONS, phase>>

\* Match details whose non-matches are taken from the candidate's side.
match_details_candidate_side(secret_person, person_data) ==
  [factual_matches |-> secret_person.factual_qids \cap person_data.factual_qids,
   factual_non_matches |-> person_data.factual_qids \ secret_person.factual_qids,
   relational_matches |-> secret_person.relational_qids \cap person_data.relational_qids,
   relational_non_matches |-> person_data.relational_qids \ secret_person.relational_qids,
   narrative_similarity |-> cosine_similarity(person_data.narrative_vector,
                                              secret_person.narrative_vector)]

\* Match details whose narrative similarity is the one of the ranking.
match_details_ranking_narrative(secret_person, person_data) ==
  [factual_matches |-> secret_person.factual_qids \cap person_data.factual_qids,
   factual_non_matches |-> secret_person.factual_qids \ person_data.factual_qids,
   relational_matches |-> secret_person.relational_qids \cap person_data.relational_qids,
   relational_non_matches |-> secret_person.relational_qids \ person_data.relational_qids,
   narrative_similarity |-> calculate_narrative_similarity(person_data.qid, secret_person.qid)]

\* main.py:480-487 and 524-527: the sets before their labels are looked up,
\* and the narrative similarity of the detail view.
match_details(secret_person, person_data) ==
  [factual_matches |-> secret_person.factual_qids \cap person_data.factual_qids,
   factual_non_matches |-> secret_person.factual_qids \ person_data.factual_qids,
   relational_matches |-> secret_person.relational_qids \cap person_data.relational_qids,
   relational_non_matches |-> secret_person.relational_qids \ person_data.relational_qids,
   narrative_similarity |-> cosine_similarity(person_data.narrative_vector,
                                              secret_person.narrative_vector)]

\* get_match_details taking the non-matching attributes with an in-place set
\* difference on the secret person's attribute set.
get_match_details_in_place(session_id, person_qid) ==
  /\ phase = "serving"
  /\ response' =
       IF PERSON_CACHE = <<>>
       THEN Resp("get_match_details", 503, session_id, person_qid)
       ELSE IF session_id \notin DOMAIN GAME_SESSIONS
       THEN Resp("get_match_details", 404, session_id, person_qid)
       ELSE IF NotFinished(GAME_SESSIONS[session_id])
       THEN Resp("get_match_details", 403, session_id, person_qid)
       ELSE LET secret_qid == GAME_SESSIONS[session_id].secret_qid
            IN IF secret_qid \notin CacheKeys \/ person_qid \notin CacheKeys
               THEN Resp("get_match_details", 404, session_id, person_qid)
               ELSE [Resp("get_match_details", 200, session_id, person_qid)
                       EXCEPT !.details = <<match_details(CacheGet(secret_qid), CacheGet(person_qid))>>]
  /\ PERSON_CACHE' =
       IF /\ PERSON_CACHE # <<>>
          /\ session_id \in DOMAIN GAME_SESSIONS
          /\ ~NotFinished(GAME_SESSIONS[session_id])
          /\ person_qid \in CacheKeys
       THEN [i \in DOMAIN PERSON_CACHE |->
               IF PERSON_CACHE[i].qid = GAME_SESSIONS[session_id].secret_qid
               THEN [PERSON_CACHE[i] EXCEPT
                       !.factual_qids = @ \ CacheGet(person_qid).factual_qids]
               ELSE PERSON_CACHE[i]]
       ELSE PERSON_CACHE
  /\ UNCHANGED <<IMPROVED_EMBEDDINGS_CACHE, GAME_SESSIONS, phase>>

\* main.py:459-551.
get_match_details(session_id, person_qid) ==
  /\ phase = "serving"
  /\ response' =
       IF PERSON_CACHE = <<>>
       THEN Resp("get_match_details", 503, session_id, person_qid)
       ELSE IF session_id \notin DOMAIN GAME_SESSIONS
       THEN Resp("get_match_details", 404, session_id, person_qid)
       ELSE IF NotFinished(GAME_SESSIONS[session_id])
       THEN Resp("get_match_details", 403, session_id, person_qid)
       ELSE LET secret_qid == GAME_SESSIONS[session_id].secret_qid
            IN IF secret_qid \notin CacheKeys \/ person_qid \notin CacheKeys
               THEN Resp("get_match_details", 404, session_id, person_qid)
               ELSE [Resp("get_match_details", 200, session_id, person_qid)
                       EXCEPT !.details = <<match_details(CacheGet(secret_qid), CacheGet(person_qid))>>]
  /\ UNCHANGED <<PERSON_CACHE, IMPROVED_EMBEDDINGS_CACHE, GAME_SESSIONS, phase>>

Next ==
  \/ load_data_into_cache
  \/ start_game
  \/ \E s \in ClientSessionIds, q \in ClientQids : make_guess(s, q)
  \/ \E s \in ClientSessionIds : resign_game(s)
  \/ \E s \in ClientSessionIds : get_ranking(s)
  \/ \E s \in ClientSessionIds, q \in ClientQids : get_match_details(s, q)
  \/ \E q \in ClientQids : get_daily_ranking(q)
  \/ \E q \in ClientQids : CallRanking(q)

Spec == Init /\ [][Next]_vars

(***************************************************************************)
(* The pure functions on their own: the two cosine and the two Jaccard     *)
(* implementations, the metadata similarity and the two explanation        *)
(* functions, each called with any argument of a bounded set.  A call      *)
(* leaves its name, its arguments and what it returned in response; the    *)
(* symmetric functions are also called with the arguments exchanged.       *)
(***************************************************************************)
Coordinates == {-4, -3, -1, 0, 1, 3, 4}

\* The vectors of at most MaxDim coordinates whose norm is an integer.
Vectors ==
  {v \in UNION {[1..n -> Coordinates] : n \in 0..MaxDim} :
     \E r \in 0..Dot(v, v) : r * r = Dot(v, v)}

AttributeSets == SUBSET {"occ:singer", "cit:us", "rel:a"}

AchievementScores == {0, 1, 2, 50, 100}

\* Metadata as enhanced_narrative_builder.py writes it, and the empty record.
MetadataRecords ==
  {[career_domain |-> d, era_category |-> e, achievement_score |-> a, thematic_tags |-> t] :
     d \in {"music", "other"}, e \in Range(era_order), a \in AchievementScores,
     t \in {{}, {"pop"}, {"pop", "rock"}}}
  \cup {<<>>}

\* Every tier bound of the two explanation functions, one tick below and one
\* tick above it, and the ends of the range of a cosine.
ExplanationScores ==
  {(b * Unit) \div 100 + d : b \in {20, 30, 35, 50, 60, 65, 70, 75, 80, 85, 90}, d \in {-1, 0, 1}}
  \cup {0, Unit, -Unit}

SimilarityResults ==
  {[overall_score |-> x] : x \in ExplanationScores}
  \cup {[overall_score |-> x, explanation |-> e] :
          x \in ExplanationScores, e \in {"", "Same professional domain", "Limited narrative overlap"}}

AspectVectors == {<<1, 0>>, <<-1, 0>>, <<0, 1>>}

\* Enriched records with the five aspect embeddings and metadata, as
\* improved_narrative_embeddings.py writes them; the files of the catalogue;
\* and the empty record.
EnrichedRecords ==
  {[embeddings |-> [career_embedding |-> u, achievement_embedding |-> u,
                    biographical_embedding |-> w, influence_embedding |-> w,
                    combined_embedding |-> u],
    metadata |-> m] :
     u \in AspectVectors, w \in AspectVectors,
     m \in {[career_domain |-> "music", era_category |-> "gen_x",
             achievement_score |-> 50, thematic_tags |-> {"music", "gen_x"}],
            [career_domain |-> "sports", era_category |-> "gen_z",
             achievement_score |-> 0, thematic_tags |-> {"sports", "gen_z"}]}}
  \cup {[embeddings |-> EnrichedFiles[q].embeddings, metadata |-> EnrichedFiles[q].metadata] :
          q \in DOMAIN EnrichedFiles}
  \cup {<<>>}

Called(op, args, value, swapped) ==
  [op |-> op, args |-> args, value |-> value, swapped |-> swapped]

InitPrim ==
  /\ PERSON_CACHE = <<>>
  /\ IMPROVED_EMBEDDINGS_CACHE = <<>>
  /\ GAME_SESSIONS = <<>>
  /\ phase = "functions"
  /\ response = NoResponse

Returns(r) ==
  /\ phase = "functions"
  /\ response' = r
  /\ UNCHANGED <<PERSON_CACHE, IMPROVED_EMBEDDINGS_CACHE, GAME_SESSIONS, phase>>

CallCosine(vec1, vec2) ==
  Returns(Called("cosine_similarity", <<vec1, vec2>>,
                 cosine_similarity(vec1, vec2), cosine_similarity(vec2, vec1)))

CallImprovedCosine(vec1, vec2) ==
  Returns(Called("improved_similarity.cosine_similarity", <<vec1, vec2>>,
                 improved_cosine_similarity(vec1, vec2), improved_cosine_similarity(vec2, vec1)))

CallJaccard(set1, set2) ==
  Returns(Called("jaccard_similarity", <<set1, set2>>,
                 jaccard_similarity(set1, set2), jaccard_similarity(set2, set1)))

CallImprovedJaccard(set1, set2) ==
  Returns(Called("improved_similarity.jaccard_similarity", <<set1, set2>>,
                 improved_jaccard_similarity(set1, set2), improved_jaccard_similarity(set2, set1)))

\* The score and the components the function returns as a pair.
CallMetadata(metadata1, metadata2) ==
  Returns(Called("calculate_metadata_similarity", <<metadata1, metadata2>>,
                 [score |-> calculate_metadata_similarity(metadata1, metadata2),
                  components |-> metadata_components(metadata1, metadata2)],
                 [score |-> calculate_metadata_similarity(metadata2, metadata1),
                  components |-> metadata_components(metadata2, metadata1)]))

CallImprovedNarrative(person1_data, person2_data) ==
  Returns(Called("calculate_improved_narrative_similarity", <<person1_data, person2_data>>,
                 calculate_improved_narrative_similarity(person1_data, person2_data),
                 calculate_improved_narrative_similarity(person2_data, person1_data)))

CallExplanation(similarity) ==
  Returns(Called("get_narrative_explanation", <<similarity>>,
                 get_narrative_explanation(similarity), ""))

CallImprovedExplanation(similarity_result) ==
  Returns(Called("get_improved_narrative_explanation", <<similarity_result>>,
                 get_improved_narrative_explanation(similarity_result), ""))

NextPrim ==
  \/ Idle /\ \E vec1, vec2 \in Vectors : CallCosine(vec1, vec2)
  \/ Idle /\ \E vec1, vec2 \in Vectors : CallImprovedCosine(vec1, vec2)
  \/ Idle /\ \E set1, set2 \in AttributeSets : CallJaccard(set1, set2)
  \/ Idle /\ \E set1, set2 \in AttributeSets : CallImprovedJaccard(set1, set2)
  \/ Idle /\ \E metadata1, metadata2 \in MetadataRecords : CallMetadata(metadata1, metadata2)
  \/ Idle /\ \E person1_data, person2_data \in EnrichedRecords :
                CallImprovedNarrative(person1_data, person2_data)
  \/ Idle /\ \E similarity \in ExplanationScores : CallExplanation(similarity)
  \/ Idle /\ \E similarity_result \in SimilarityResults : CallImprovedExplanation(similarity_result)

SpecPrim == InitPrim /\ [][NextPrim]_vars

(***************************************************************************)
(* The detail view on its own: any population, no or all enriched files,   *)
(* and one session that start_game created with any secret and resign_game *)
(* ended; get_match_details is called for any session id and person id.    *)
(***************************************************************************)
InitDetails ==
  /\ \E qs \in Populations(MaxPersons) : PERSON_CACHE = RowsOf(qs)
  /\ \E S \in {{}, DOMAIN EnrichedFiles} : IMPROVED_EMBEDDINGS_CACHE = EnrichedOf(S)
  /\ \E secret_qid \in CacheKeys :
       GAME_SESSIONS = [s \in {1} |->
                          [secret_qid |-> secret_qid, guesses |-> <<>>,
                           is_game_won |-> FALSE, is_resigned |-> TRUE,
                           ranking_calculated |-> FALSE]]
  /\ phase = "serving"
  /\ response = NoResponse

NextDetails == \E s \in ClientSessionIds, q \in ClientQids : get_match_details(s, q)

SpecDetails == InitDetails /\ [][NextDetails]_vars

(***************************************************************************)
(* Properties of the ranking engine.                                       *)
(***************************************************************************)
RankingOps == {"calculate_ranking_for_secret", "get_daily_ranking", "get_ranking"}

\* The last response carries a ranking.
RankingReturned == response.op \in RankingOps /\ response.status = 200

\* The secret that ranking was computed for.
RankingTarget ==
  IF response.op = "get_ranking" THEN GAME_SESSIONS[response.sessionId]["secret_qid"]
  ELSE response.qid

HasEnriched(q) == q \in DOMAIN IMPROVED_EMBEDDINGS_CACHE

\* C1: for every population of size >= 1 and every target in it, the entry
\* with rank 1 of the ranking returned for the target is the target itself.
C1_TargetRanksFirst ==
  RankingReturned => response.ranking[1].qid = RankingTarget

\* C2: along the returned ranking the scores never increase: an entry with a
\* smaller rank has a score at least as great.
C2_ScoresNonIncreasing ==
  RankingReturned =>
    \A i, j \in DOMAIN response.ranking :
      response.ranking[i].rank < response.ranking[j].rank
        => response.ranking[i].score >= response.ranking[j].score

C2_Witness ==
  /\ RankingReturned
  /\ Len(response.ranking) = 3
  /\ response.ranking[1].score > response.ranking[2].score
  /\ response.ranking[2].score > response.ranking[3].score
  /\ PERSON_CACHE[1].qid = response.ranking[3].qid

\* C3: the ranking holds every person of the population exactly once and the
\* entry at position i (counted from 1) has rank i, so the ranks are 1..N
\* without gap or repeat, also among equal scores.
C3_DenseRanks ==
  RankingReturned =>
    /\ Len(response.ranking) = Len(PERSON_CACHE)
    /\ {response.ranking[i].qid : i \in DOMAIN response.ranking} = CacheKeys
    /\ \A i, j \in DOMAIN response.ranking :
         i # j => response.ranking[i].qid # response.ranking[j].qid
    /\ \A i \in DOMAIN response.ranking : response.ranking[i].rank = i
    /\ {response.ranking[i].rank : i \in DOMAIN response.ranking} = 1..Len(PERSON_CACHE)

C3_Witness ==
  /\ RankingReturned
  /\ Len(response.ranking) = 3
  /\ response.ranking[1].score = response.ranking[2].score
  /\ response.ranking[2].rank = 2

\* The Jaccard similarity of A and B is the value x (in ticks).
IsJaccard(x, A, B) ==
  IF A \cup B = {} THEN x = 0
  ELSE x * Cardinality(A \cup B) = Unit * Cardinality(A \cap B)

\* final = 0.5 narrative + 0.3 factual + 0.2 relational, the last two being
\* the Jaccard similarities of the qid sets of the entry's person and the
\* target.
WeightedScore(e) ==
  /\ 10 * e.score = 5 * e.sim_narrative + 3 * e.sim_factual + 2 * e.sim_relational
  /\ IsJaccard(e.sim_factual, CacheGet(e.qid).factual_qids, CacheGet(RankingTarget).factual_qids)
  /\ IsJaccard(e.sim_relational, CacheGet(e.qid).relational_qids,
               CacheGet(RankingTarget).relational_qids)

\* The pair of the scenario: orthogonal narrative vectors, equal nonempty
\* factual sets, no relational identifiers.
ScenarioPair(p, t) ==
  /\ Len(p.narrative_vector) = Len(t.narrative_vector)
  /\ p.narrative_vector # <<>>
  /\ Dot(p.narrative_vector, t.narrative_vector) = 0
  /\ p.factual_qids = t.factual_qids /\ p.factual_qids # {}
  /\ p.relational_qids = {} /\ t.relational_qids = {}

ScenarioScores(e) ==
  /\ e.sim_narrative = 0 /\ e.sim_factual = Unit /\ e.sim_relational = 0
  /\ 10 * e.score = 3 * Unit

\* C4 as stated: every score is the weighted sum, and every scenario pair
\* scores narrative 0.0, factual 1.0, relational 0.0, final 0.3.
C4_Original ==
  RankingReturned =>
    \A i \in DOMAIN response.ranking :
      LET e == response.ranking[i]
      IN /\ WeightedScore(e)
         /\ ScenarioPair(CacheGet(e.qid), CacheGet(RankingTarget)) => ScenarioScores(e)

\* C4 (amended): every score is the weighted sum 0.5 narrative + 0.3 factual
\* + 0.2 relational with Jaccard factual and relational parts; a scenario
\* pair scores 0.0 / 1.0 / 0.0 / 0.3 when at least one of the two persons
\* has no enriched embeddings, so that the narrative part is the cosine.
C4_WeightedScore ==
  RankingReturned =>
    \A i \in DOMAIN response.ranking :
      LET e == response.ranking[i]
      IN /\ WeightedScore(e)
         /\ ( /\ ScenarioPair(CacheGet(e.qid), CacheGet(RankingTarget))
              /\ ~(HasEnriched(e.qid) /\ HasEnriched(RankingTarget)) )
            => ScenarioScores(e)

C4_Witness ==
  /\ RankingReturned
  /\ RankingTarget = "Q1"
  /\ \E i \in DOMAIN response.ranking :
       /\ response.ranking[i].qid = "Q2"
       /\ ScenarioPair(CacheGet("Q2"), CacheGet("Q1"))
       /\ HasEnriched("Q1") /\ ~HasEnriched("Q2")
       /\ ScenarioScores(response.ranking[i])
  /\ \E i \in DOMAIN response.ranking :
       /\ response.ranking[i].qid = "Q5"
       /\ response.ranking[i].sim_factual = Unit \div 2

(***************************************************************************)
(* Properties of the endpoints.  A rejected request leaves the sessions as *)
(* they were and the population never changes once loaded, so the state in *)
(* which the last response is read is the state the request was served in. *)
(***************************************************************************)
\* The state of a session of the table S: NotStarted while it has no entry.
RoundState(S, s) ==
  IF s \notin DOMAIN S THEN "NotStarted"
  ELSE IF S[s]["is_game_won"] /\ S[s]["is_resigned"] THEN "Both"
  ELSE IF S[s]["is_game_won"] THEN "Won"
  ELSE IF S[s]["is_resigned"] THEN "Resigned"
  ELSE "InProgress"

\* The last response is about a session that is over / still running.
SessionOver == RoundState(GAME_SESSIONS, response.sessionId) \in {"Won", "Resigned", "Both"}

SessionRunning == RoundState(GAME_SESSIONS, response.sessionId) = "InProgress"

\* The requests that name a person: the op and the field holding the id.
ScoringOps == {"calculate_ranking_for_secret", "get_daily_ranking", "make_guess", "get_match_details"}

NamesAbsentPerson == response.op \in ScoringOps /\ response.qid \notin CacheKeys

NoBody == response.ranking = <<>> /\ response.result = <<>> /\ response.details = <<>>

SessionKnown == response.sessionId \in DOMAIN GAME_SESSIONS

\* C5 as stated: a ranking or scoring request naming an id absent from the
\* population ends in 404.
C5_Original ==
  NamesAbsentPerson => response.status = 404

\* An earlier check of the handler rejects the request before the person is
\* looked up: the empty population (503), make_guess on a finished game
\* (400), get_match_details on a running game (403).
RejectedEarlier ==
  \/ /\ response.op \in {"make_guess", "get_match_details"}
     /\ PERSON_CACHE = <<>>
  \/ /\ response.op = "make_guess"
     /\ SessionOver
  \/ /\ response.op = "get_match_details"
     /\ SessionRunning

\* C5 (amended): a ranking or scoring request naming an id absent from the
\* population ends in an error and returns no result; the error is 404
\* unless an earlier check of the handler rejects the request first, with
\* 503 for an empty population, 400 for make_guess on a finished game, 403
\* for get_match_details on a game that is not finished.
C5_AbsentIdRejected ==
  NamesAbsentPerson =>
    /\ NoBody
    /\ response.status \in {404, 503, 400, 403}
    /\ ~RejectedEarlier => response.status = 404
    /\ response.status = 503 => PERSON_CACHE = <<>>
    /\ response.status = 400 => response.op = "make_guess"
    /\ response.status = 403 => response.op = "get_match_details"

C5_Witness ==
  /\ response.op = "make_guess"
  /\ response.qid \notin CacheKeys
  /\ SessionRunning
  /\ Len(GAME_SESSIONS[response.sessionId]["guesses"]) = 1
  /\ response.status = 404

\* C6: every ranking call made while the population is empty is rejected
\* with 503.
C6_NotReady ==
  ( /\ PERSON_CACHE = <<>>
    /\ response.op \in {"get_daily_ranking", "make_guess", "resign_game", "get_ranking",
                        "calculate_ranking_for_secret"} )
  => response.status = 503

\* C7: the result make_guess returns is the entry of the guessed person in
\* the ranking of the session's secret, and it is the entry found for that
\* person in the ranking get_ranking returns once the game is over.
C7_GuessIsRankingEntry ==
  /\ ( response.op = "make_guess" /\ response.status = 200 ) =>
       LET full == calculate_ranking_for_secret(GAME_SESSIONS[response.sessionId]["secret_qid"]).ranking
       IN /\ Len(response.result) = 1
          /\ response.result[1].qid = response.qid
          /\ \E i \in DOMAIN full : full[i] = response.result[1]
  /\ ( response.op = "get_ranking" /\ response.status = 200 ) =>
       LET log == GAME_SESSIONS[response.sessionId]["guesses"]
       IN \A k \in DOMAIN log :
            \E i \in DOMAIN response.ranking :
              /\ response.ranking[i] = log[k]
              /\ \A j \in DOMAIN response.ranking :
                   response.ranking[j].qid = log[k].qid => j = i

C7_Witness ==
  /\ response.op = "get_ranking" /\ response.status = 200
  /\ LET log == GAME_SESSIONS[response.sessionId]["guesses"]
     IN /\ Len(log) = 2
        /\ log[1].rank = 1 /\ log[2].rank = 2
        /\ log[2].qid = GAME_SESSIONS[response.sessionId]["secret_qid"]

\* C8: get_ranking and get_match_details return data only for a session that
\* is Won or Resigned; for a session in progress both answer 403 with no
\* ranking and no match detail.
C8_FullDataOnlyWhenFinished ==
  response.op \in {"get_ranking", "get_match_details"} =>
    /\ SessionRunning => ( response.status = 403 /\ NoBody )
    /\ ( response.status = 200 \/ ~NoBody )
         => SessionOver

C8_Witness ==
  /\ response.op = "get_match_details"
  /\ response.qid \in CacheKeys
  /\ SessionKnown
  /\ Len(GAME_SESSIONS[response.sessionId]["guesses"]) = 1
  /\ SessionRunning
  /\ response.status = 403

C9_Step(s) ==
  LET before == RoundState(GAME_SESSIONS, s)
      after == RoundState(GAME_SESSIONS', s)
  IN /\ \/ after = before
        \/ /\ before = "NotStarted" /\ after = "InProgress"
           /\ response'.op = "start_game" /\ response'.status = 200
           /\ response'.sessionId = s
        \/ /\ before = "InProgress" /\ after = "Won"
           /\ response'.op = "make_guess" /\ response'.status = 200
           /\ response'.sessionId = s /\ response'.isCorrect
           /\ response'.qid = GAME_SESSIONS[s]["secret_qid"]
        \/ /\ before = "InProgress" /\ after = "Resigned"
           /\ response'.op = "resign_game" /\ response'.status = 200
           /\ response'.sessionId = s
     /\ before \in {"Won", "Resigned"} =>
          /\ GAME_SESSIONS'[s] = GAME_SESSIONS[s]
          /\ ( response'.op \in {"make_guess", "resign_game"} /\ response'.sessionId = s )
               => response'.status = 400
     /\ ( response'.op = "start_game" /\ response'.status = 200 /\ response'.sessionId = s )
          => ( before = "NotStarted" /\ after = "InProgress" )
     /\ ( response'.op = "make_guess" /\ response'.status = 200 /\ response'.sessionId = s
          /\ response'.isCorrect ) => after = "Won"
     /\ ( response'.op = "resign_game" /\ response'.status = 200 /\ response'.sessionId = s )
          => after = "Resigned"

\* C9: a session only moves NotStarted -> InProgress -> {Won, Resigned}:
\* start_game creates it InProgress, only a correct make_guess makes it Won,
\* only resign_game makes it Resigned, a finished session is never changed
\* again and answers make_guess and resign_game with 400, and no session is
\* both won and resigned.
C9_RoundStateMachine ==
  /\ [](\A s \in DOMAIN GAME_SESSIONS : RoundState(GAME_SESSIONS, s) # "Both")
  /\ [][\A s \in DOMAIN GAME_SESSIONS \cup DOMAIN GAME_SESSIONS' : C9_Step(s)]_vars

C9_Witness ==
  /\ response.op = "make_guess" /\ response.status = 400
  /\ response.qid = GAME_SESSIONS[response.sessionId]["secret_qid"]
  /\ RoundState(GAME_SESSIONS, response.sessionId) = "Resigned"
  /\ \E s \in DOMAIN GAME_SESSIONS : RoundState(GAME_SESSIONS, s) = "Won"

\* C10: start_game fixes the secret of a session to an id of the population
\* and no later operation changes it, start_game of another session included.
C10_SecretPinned ==
  /\ [](\A s \in DOMAIN GAME_SESSIONS : GAME_SESSIONS[s]["secret_qid"] \in CacheKeys)
  /\ [][\A s \in DOMAIN GAME_SESSIONS :
          /\ s \in DOMAIN GAME_SESSIONS'
          /\ GAME_SESSIONS'[s]["secret_qid"] = GAME_SESSIONS[s]["secret_qid"]]_vars

C10_Witness ==
  /\ response.op = "start_game" /\ response.status = 200
  /\ response.sessionId = 2
  /\ Len(GAME_SESSIONS[1]["guesses"]) = 1
  /\ GAME_SESSIONS[1]["secret_qid"] # GAME_SESSIONS[2]["secret_qid"]

\* C11: the guess log of a session is append-only and ordered: a new session
\* starts with an empty log, each successful make_guess appends exactly one
\* scored entry for the guessed person at the end of the log of its session,
\* earlier entries are never removed, reordered or changed, and no other
\* operation changes a log.
C11_LogAppendOnly ==
  [][/\ \A s \in DOMAIN GAME_SESSIONS :
          /\ s \in DOMAIN GAME_SESSIONS'
          /\ LET log == GAME_SESSIONS[s]["guesses"]
                 logAfter == GAME_SESSIONS'[s]["guesses"]
             IN IF /\ response'.op = "make_guess" /\ response'.status = 200
                   /\ response'.sessionId = s
                THEN /\ Len(response'.result) = 1
                     /\ response'.result[1].qid = response'.qid
                     /\ Len(logAfter) = Len(log) + 1
                     /\ logAfter[Len(logAfter)] = response'.result[1]
                     /\ \A k \in DOMAIN log : logAfter[k] = log[k]
                ELSE logAfter = log
     /\ \A s \in DOMAIN GAME_SESSIONS' \ DOMAIN GAME_SESSIONS :
          GAME_SESSIONS'[s]["guesses"] = <<>>]_vars

C11_Witness ==
  /\ response.op = "make_guess" /\ response.status = 200
  /\ LET log == GAME_SESSIONS[response.sessionId]["guesses"]
     IN /\ Len(log) = 2
        /\ log[1].qid # log[2].qid
        /\ log[2].qid = response.qid

\* C12: once loaded, PERSON_CACHE and IMPROVED_EMBEDDINGS_CACHE are left
\* unchanged by every scoring and session operation: no person is added,
\* removed or modified by calculate_ranking_for_secret, make_guess,
\* resign_game, get_ranking, get_daily_ranking or get_match_details.
C12_SnapshotUnchanged ==
  [][phase = "serving" =>
       /\ PERSON_CACHE' = PERSON_CACHE
       /\ IMPROVED_EMBEDDINGS_CACHE' = IMPROVED_EMBEDDINGS_CACHE]_vars

C12_Witness ==
  /\ response.op = "get_match_details" /\ response.status = 200
  /\ response.qid # GAME_SESSIONS[response.sessionId]["secret_qid"]
  /\ response.details[1].factual_matches # {}
  /\ Len(GAME_SESSIONS[response.sessionId]["guesses"]) = 2
  /\ \E l \in Loads : PERSON_CACHE = RowsOf(l[1]) /\ IMPROVED_EMBEDDINGS_CACHE = EnrichedOf(l[2])

\* The requests that act on one session.
SessionOps == {"make_guess", "resign_game", "get_ranking", "get_match_details"}

\* The entry of person qid in the ranking of secret_qid.
SoloEntry(secret_qid, qid) ==
  LET full == calculate_ranking_for_secret(secret_qid).ranking
  IN full[CHOOSE i \in DOMAIN full : full[i].qid = qid]

SoloOver(session) == session["is_game_won"] \/ session["is_resigned"]

\* What a request on session s answers when only that session exists: a
\* function of the session's own record, the request and the population.
SoloResponse(session, op, s, qid) ==
  LET secret_qid == session["secret_qid"]
  IN CASE op = "make_guess" ->
            IF SoloOver(session) THEN Resp(op, 400, s, qid)
            ELSE IF qid \notin CacheKeys THEN Resp(op, 404, s, qid)
            ELSE [Resp(op, 200, s, qid) EXCEPT !.isCorrect = (qid = secret_qid),
                                               !.gameWon = (qid = secret_qid),
                                               !.result = <<SoloEntry(secret_qid, qid)>>]
       [] op = "resign_game" ->
            IF SoloOver(session) THEN Resp(op, 400, s, "")
            ELSE [Resp(op, 200, s, secret_qid) EXCEPT !.result = <<SoloEntry(secret_qid, secret_qid)>>]
       [] op = "get_ranking" ->
            IF ~SoloOver(session) THEN Resp(op, 403, s, "")
            ELSE [Resp(op, 200, s, "") EXCEPT
                    !.ranking = calculate_ranking_for_secret(secret_qid).ranking]
       [] op = "get_match_details" ->
            IF ~SoloOver(session) THEN Resp(op, 403, s, qid)
            ELSE IF qid \notin CacheKeys THEN Resp(op, 404, s, qid)
            ELSE [Resp(op, 200, s, qid) EXCEPT
                    !.details = <<match_details(CacheGet(secret_qid), CacheGet(qid))>>]

\* The session's record after that request, again from its own record only.
SoloSession(session, op, qid) ==
  LET secret_qid == session["secret_qid"]
  IN CASE op = "make_guess" /\ ~SoloOver(session) /\ qid \in CacheKeys ->
            [session EXCEPT !["guesses"] = Append(@, SoloEntry(secret_qid, qid)),
                            !["is_game_won"] = (qid = secret_qid)]
       [] op = "resign_game" /\ ~SoloOver(session) ->
            [session EXCEPT !["is_resigned"] = TRUE]
       [] OTHER -> session

\* C13: sessions do not interfere: whatever the other sessions are and have
\* done, a request on a session answers, and leaves that session, exactly as
\* it would with that session alone, and it changes no other session's
\* secret, guess log or won/resigned flags; start_game changes no existing
\* session either.
C13_SessionsIndependent ==
  [][\A s \in DOMAIN GAME_SESSIONS :
       /\ s \in DOMAIN GAME_SESSIONS'
       /\ IF response'.op \in SessionOps /\ response'.sessionId = s
          THEN /\ response' = SoloResponse(GAME_SESSIONS[s], response'.op, s, response'.qid)
               /\ GAME_SESSIONS'[s] = SoloSession(GAME_SESSIONS[s], response'.op, response'.qid)
          ELSE GAME_SESSIONS'[s] = GAME_SESSIONS[s]]_vars

C13_Witness ==
  /\ response.op = "resign_game" /\ response.status = 200 /\ response.sessionId = 1
  /\ DOMAIN GAME_SESSIONS = {1, 2}
  /\ GAME_SESSIONS[1]["secret_qid"] # GAME_SESSIONS[2]["secret_qid"]
  /\ Len(GAME_SESSIONS[1]["guesses"]) = 1 /\ Len(GAME_SESSIONS[2]["guesses"]) = 1
  /\ RoundState(GAME_SESSIONS, 1) = "Resigned"
  /\ RoundState(GAME_SESSIONS, 2) = "InProgress"

\* C14: the narrative path is chosen per pair: the sim_narrative of a
\* candidate is the multi-aspect overall_score exactly when both the
\* candidate and the target have enriched embeddings, and otherwise the
\* plain cosine of the two narrative vectors; one ranking can hold candidates
\* of both kinds.
C14_PathPerPair ==
  RankingReturned =>
    \A i \in DOMAIN response.ranking :
      LET p == response.ranking[i].qid
          t == RankingTarget
      IN response.ranking[i].sim_narrative =
           IF HasEnriched(p) /\ HasEnriched(t)
           THEN calculate_improved_narrative_similarity(IMPROVED_EMBEDDINGS_CACHE[p],
                                                        IMPROVED_EMBEDDINGS_CACHE[t])
           ELSE cosine_similarity(CacheGet(p).narrative_vector, CacheGet(t).narrative_vector)

C14_Witness ==
  /\ RankingReturned
  /\ HasEnriched(RankingTarget)
  /\ \E i, j \in DOMAIN response.ranking :
       LET p == response.ranking[i].qid
           q == response.ranking[j].qid
           t == RankingTarget
       IN /\ p # t /\ HasEnriched(p)
          /\ response.ranking[i].sim_narrative #
               cosine_similarity(CacheGet(p).narrative_vector, CacheGet(t).narrative_vector)
          /\ q # t /\ ~HasEnriched(q)
          /\ response.ranking[j].sim_narrative > 0

CosineOps == {"cosine_similarity", "improved_similarity.cosine_similarity"}

JaccardOps == {"jaccard_similarity", "improved_similarity.jaccard_similarity"}

ZeroVector(v) == \A i \in DOMAIN v : v[i] = 0

\* C15: both cosine_similarity implementations return exactly 0.0 whenever
\* either vector has zero magnitude (the empty vector included) or the two
\* vectors have different lengths, in either order of the arguments.
C15_DegenerateCosineIsZero ==
  response.op \in CosineOps =>
    LET vec1 == response.args[1]
        vec2 == response.args[2]
    IN ( Len(vec1) # Len(vec2) \/ ZeroVector(vec1) \/ ZeroVector(vec2) ) =>
         response.value = 0 /\ response.swapped = 0

C15_Witness ==
  /\ response.op = "improved_similarity.cosine_similarity"
  /\ Len(response.args[1]) = 2 /\ ZeroVector(response.args[1])
  /\ Len(response.args[2]) = 1 /\ ~ZeroVector(response.args[2])
  /\ response.value = 0

\* C16: both jaccard_similarity implementations return |A n B| / |A u B| when
\* the union is nonempty and 0 when both sets are empty; the result is in
\* [0,1], is 1 for a nonempty set against itself, is the same with the
\* arguments exchanged, and so is the same for the two implementations.
C16_Jaccard ==
  response.op \in JaccardOps =>
    LET A == response.args[1]
        B == response.args[2]
    IN /\ A \cup B # {} =>
            response.value * Cardinality(A \cup B) = Cardinality(A \cap B) * Unit
       /\ A \cup B = {} => response.value = 0
       /\ 0 <= response.value /\ response.value <= Unit
       /\ ( A = B /\ A # {} ) => response.value = Unit
       /\ response.swapped = response.value

C16_Witness ==
  /\ response.op = "improved_similarity.jaccard_similarity"
  /\ Cardinality(response.args[1] \cap response.args[2]) = 1
  /\ Cardinality(response.args[1] \cup response.args[2]) = 3
  /\ response.value = Unit \div 3

MetadataCall == response.op = "calculate_metadata_similarity"

AllComponentsFull(c) ==
  /\ c["domain_match"] = Unit /\ c["era_match"] = Unit
  /\ c["achievement_similarity"] = Unit /\ c["tag_similarity"] = Unit

SelfWithTags ==
  /\ MetadataCall
  /\ response.args[1] = response.args[2]
  /\ Get(response.args[1], "thematic_tags", {}) # {}

\* C17 as stated: the score of a record against itself is 1.0 whenever its
\* tags are nonempty, for every achievement_score from 0 to 100.
C17_Original ==
  SelfWithTags => response.value["score"] = Unit

\* C17: the four metadata weights sum to 1.0 (four full components give score
\* 1.0), and a record with nonempty tags and an achievement_score of at least
\* 1 scores 1.0 against itself whatever its career_domain and era_category.
C17_SelfSimilarity ==
  /\ ( MetadataCall /\ AllComponentsFull(response.value["components"]) ) =>
       response.value["score"] = Unit
  /\ ( SelfWithTags /\ Get(response.args[1], "achievement_score", 0) >= 1 ) =>
       /\ AllComponentsFull(response.value["components"])
       /\ response.value["score"] = Unit

C17_Witness ==
  /\ SelfWithTags
  /\ response.args[1]["achievement_score"] = 1
  /\ response.args[1]["career_domain"] = "other"
  /\ response.args[1]["era_category"] = "unknown"
  /\ response.value["score"] = Unit

HasEra(m) == "era_category" \in DOMAIN m /\ m["era_category"] \in Range(era_order)

EraDistance(m1, m2) == Abs(EraIndex(m1["era_category"]) - EraIndex(m2["era_category"]))

\* C18: for every pair of buckets of the ordering pre_boomer, boomer, gen_x,
\* millennial, millennial_late, gen_z, unknown the era_match component is 1.0
\* for identical buckets, 0.5 for buckets at index distance 1 (gen_z and
\* unknown included) and 0.0 otherwise.
C18_EraMatch ==
  ( MetadataCall /\ HasEra(response.args[1]) /\ HasEra(response.args[2]) ) =>
    response.value["components"]["era_match"] =
      IF response.args[1]["era_category"] = response.args[2]["era_category"] THEN Unit
      ELSE IF EraDistance(response.args[1], response.args[2]) = 1 THEN Unit \div 2
      ELSE 0

C18_Witness ==
  /\ MetadataCall /\ HasEra(response.args[1]) /\ HasEra(response.args[2])
  /\ response.args[1]["era_category"] = "gen_z"
  /\ response.args[2]["era_category"] = "unknown"
  /\ response.value["components"]["era_match"] = Unit \div 2
  /\ response.swapped["components"]["era_match"] = Unit \div 2

\* C19: the achievement component is min(a1,a2) / max(a1,a2,1) for all
\* achievement scores from 0 to 100: it is defined for two scores of 0, where
\* it is 0.0, and it lies in [0,1].
C19_Achievement ==
  MetadataCall =>
    LET a1 == Get(response.args[1], "achievement_score", 0)
        a2 == Get(response.args[2], "achievement_score", 0)
        x == response.value["components"]["achievement_similarity"]
    IN /\ x * Max2(Max2(a1, a2), 1) = Min2(a1, a2) * Unit
       /\ 0 <= x /\ x <= Unit
       /\ ( a1 = 0 /\ a2 = 0 ) => x = 0

C19_Witness ==
  /\ MetadataCall
  /\ "achievement_score" \in DOMAIN response.args[1]
  /\ "achievement_score" \in DOMAIN response.args[2]
  /\ response.args[1]["achievement_score"] = 0
  /\ response.args[2]["achievement_score"] = 0
  /\ response.value["components"]["achievement_similarity"] = 0
  /\ response.value["components"]["tag_similarity"] = Unit

\* The lower bounds of the tiers, in hundredths, from the highest tier down.
NarrativeBounds == <<90, 80, 70, 60, 50, 30>>

ImprovedBounds == <<85, 75, 65, 50, 35, 20>>

NarrativeTiers ==
  <<"Extremely high similarity - narratives are nearly identical in themes and context",
    "Very high similarity - narratives share strong thematic and contextual similarities",
    "High similarity - narratives have significant thematic overlap and similar contexts",
    "Moderate similarity - narratives share some common themes and contexts",
    "Low similarity - narratives have limited thematic overlap",
    "Very low similarity - narratives share few common elements",
    "Minimal similarity - narratives are largely unrelated">>

ImprovedTiers ==
  <<"Extremely high narrative similarity", "Very high narrative similarity",
    "High narrative similarity", "Moderate narrative similarity",
    "Low narrative similarity", "Very low narrative similarity",
    "Minimal narrative similarity">>

\* The tier of the greatest bound the score reaches: 1 for the highest tier,
\* 7 when the score is below every bound.
TierOf(score, bounds) ==
  1 + Cardinality({k \in DOMAIN bounds : score * 100 < bounds[k] * Unit})

\* C20: each explanation function maps a score to the tier of the greatest
\* lower bound the score reaches, the bound itself included:
\* 0.90/0.80/0.70/0.60/0.50/0.30 for get_narrative_explanation and
\* 0.85/0.75/0.65/0.50/0.35/0.20 for get_improved_narrative_explanation, with
\* the same seven tiers from extremely high down to minimal.
C20_Tiers ==
  /\ response.op = "get_narrative_explanation" =>
       response.value = NarrativeTiers[TierOf(response.args[1], NarrativeBounds)]
  /\ response.op = "get_improved_narrative_explanation" =>
       LET base == ImprovedTiers[TierOf(response.args[1]["overall_score"], ImprovedBounds)]
           specific == Get(response.args[1], "explanation", "")
       IN response.value = IF specific = "" THEN base ELSE base \o " - " \o specific

C20_Witness ==
  /\ response.op = "get_narrative_explanation"
  /\ response.args[1] = (3 * Unit) \div 10
  /\ response.value = "Very low similarity - narratives share few common elements"

\* The attributes the ranking reads of two persons are the same.
SameAttributes(p, a) ==
  /\ p.factual_qids = a.factual_qids
  /\ p.relational_qids = a.relational_qids
  /\ p.narrative_vector = a.narrative_vector

\* Attribute sets disjoint from a's and a narrative vector of zero magnitude.
DisjointAndZero(p, a) ==
  /\ p.factual_qids \cap a.factual_qids = {}
  /\ p.relational_qids \cap a.relational_qids = {}
  /\ ZeroVector(p.narrative_vector)

\* The score of the target's own entry in the returned ranking.
SelfScore ==
  LET i == CHOOSE k \in DOMAIN response.ranking : response.ranking[k].qid = RankingTarget
  IN response.ranking[i].score

\* B scores 1.0 and as much as the target itself, C scores 0.0.
TwinAndStranger ==
  \A i \in DOMAIN response.ranking :
    LET p == CacheGet(response.ranking[i].qid)
        a == CacheGet(RankingTarget)
    IN /\ ( p.qid # a.qid /\ SameAttributes(p, a) ) =>
            /\ response.ranking[i].score = Unit
            /\ response.ranking[i].score = SelfScore
       /\ ( p.qid # a.qid /\ DisjointAndZero(p, a) ) =>
            response.ranking[i].score = 0

\* C21 as stated: for any target A, a person B with A's attributes scores
\* 1.0, A's own score, and a person C with disjoint attribute sets and a zero
\* narrative vector scores exactly 0.0.
C21_Original ==
  RankingReturned => TwinAndStranger

\* C21: for a target A without enriched embeddings, with a nonzero narrative
\* vector and nonempty factual and relational sets, a person B with A's
\* attributes scores 1.0, A's own score, and a person C with disjoint
\* attribute sets and a zero narrative vector scores exactly 0.0.
C21_TwinAndStranger ==
  ( /\ RankingReturned
    /\ ~HasEnriched(RankingTarget)
    /\ ~ZeroVector(CacheGet(RankingTarget).narrative_vector)
    /\ CacheGet(RankingTarget).factual_qids # {}
    /\ CacheGet(RankingTarget).relational_qids # {} ) => TwinAndStranger

C21_Witness ==
  /\ RankingReturned
  /\ RankingTarget = "Q5" /\ ~HasEnriched("Q5")
  /\ Len(response.ranking) = 3
  /\ \E i, j \in DOMAIN response.ranking :
       /\ response.ranking[i].qid = "Q7" /\ response.ranking[i].score = Unit
       /\ response.ranking[j].qid = "Q8" /\ response.ranking[j].score = 0
       /\ DisjointAndZero(CacheGet("Q8"), CacheGet("Q5"))
       /\ CacheGet("Q8").factual_qids # {}

DetailsReturned == response.op = "get_match_details" /\ response.status = 200

\* The secret and the candidate of the last get_match_details.
DetailSecret == CacheGet(GAME_SESSIONS[response.sessionId]["secret_qid"])

DetailCandidate == CacheGet(response.qid)

\* Matches and non-matches split the secret's set S by membership in the
\* candidate's set P.
SplitsSecret(matches, non_matches, S, P) ==
  /\ matches = S \cap P
  /\ non_matches = S \ P
  /\ matches \cap non_matches = {}
  /\ matches \cup non_matches = S
  /\ (P \ S) \cap (matches \cup non_matches) = {}

CachePosition(q) == CHOOSE i \in DOMAIN PERSON_CACHE : PERSON_CACHE[i].qid = q

\* C23: persons with equal final score appear in the ranking in the
\* iteration order of PERSON_CACHE: if p precedes q in the population and
\* their scores are equal then rank(p) < rank(q).
C23_StableTies ==
  RankingReturned =>
    \A i, j \in DOMAIN response.ranking :
      ( /\ response.ranking[i].score = response.ranking[j].score
        /\ CachePosition(response.ranking[i].qid) < CachePosition(response.ranking[j].qid) )
      => response.ranking[i].rank < response.ranking[j].rank

C23_Witness ==
  /\ RankingReturned
  /\ RankingTarget = "Q1"
  /\ CacheKeys = {"Q1", "Q2", "Q3"}
  /\ CachePosition("Q3") < CachePosition("Q2") /\ CachePosition("Q2") < CachePosition("Q1")
  /\ response.ranking[1].qid = "Q3" /\ response.ranking[2].qid = "Q1"
  /\ response.ranking[1].score = response.ranking[2].score
  /\ response.ranking[3].score < response.ranking[2].score

\* The cosine of one aspect of the two records of the last call.
AspectSim(k) ==
  improved_cosine_similarity(
    Get(Get(response.args[1], "embeddings", <<>>), k, <<>>),
    Get(Get(response.args[2], "embeddings", <<>>), k, <<>>))

\* C24: the overall_score of calculate_improved_narrative_similarity is
\* 0.20 career + 0.15 achievement + 0.20 biographical + 0.10 influence +
\* 0.20 combined + 0.15 metadata, and lies in [0,1] for every pair of
\* enriched records.
C24_OverallScore ==
  response.op = "calculate_improved_narrative_similarity" =>
    /\ response.value * 100 =
         20 * AspectSim("career_embedding") + 15 * AspectSim("achievement_embedding")
         + 20 * AspectSim("biographical_embedding") + 10 * AspectSim("influence_embedding")
         + 20 * AspectSim("combined_embedding")
         + 15 * calculate_metadata_similarity(Get(response.args[1], "metadata", <<>>),
                                              Get(response.args[2], "metadata", <<>>))
    /\ 0 <= response.value /\ response.value <= Unit

\* C25: the ranking is a pure function of the population snapshot and the
\* target: whatever session operations and ranking calls came before, a
\* returned ranking is the list computed from PERSON_CACHE,
\* IMPROVED_EMBEDDINGS_CACHE and the target alone, and two calls in a row for
\* the same target return identical lists.
C25_RankingIsPure ==
  /\ [](RankingReturned =>
          response.ranking = calculate_ranking_for_secret(RankingTarget).ranking)
  /\ [][( /\ RankingReturned
          /\ response'.op \in RankingOps /\ response'.status = 200
          /\ RankingTarget = ( IF response'.op = "get_ranking"
                               THEN GAME_SESSIONS'[response'.sessionId]["secret_qid"]
                               ELSE response'.qid ) )
        => response'.ranking = response.ranking]_vars

C25_Witness ==
  /\ response.op = "calculate_ranking_for_secret" /\ response.status = 200
  /\ Len(response.ranking) = 2
  /\ \E s, t \in DOMAIN GAME_SESSIONS :
       /\ GAME_SESSIONS[s]["secret_qid"] # response.qid
       /\ Len(GAME_SESSIONS[s]["guesses"]) = 2
       /\ RoundState(GAME_SESSIONS, s) = "Won"
       /\ RoundState(GAME_SESSIONS, t) = "Resigned"

\* C26: for every population without enriched embeddings and every target
\* in it, the preview script's calculate_ranking returns what the backend's
\* calculate_ranking_for_secret returns: the same persons in the same order
\* with the same rank, score and three sub-scores.
C26_PreviewMatchesBackend ==
  ( /\ response.op = "preview_game.calculate_ranking"
    /\ response.qid \in CacheKeys
    /\ IMPROVED_EMBEDDINGS_CACHE = <<>> )
  => response.ranking = calculate_ranking_for_secret(response.qid).ranking

C26_Witness ==
  /\ response.op = "preview_game.calculate_ranking"
  /\ IMPROVED_EMBEDDINGS_CACHE = <<>>
  /\ response.qid = "Q6"
  /\ Len(response.ranking) = 3
  /\ response.ranking[1].qid = "Q6"
  /\ response.ranking[2].qid = "Q5" /\ response.ranking[2].sim_relational = Unit \div 2
  /\ response.ranking[3].score < 0

\* The ranking entry of a session's secret in the ranking of that secret.
SecretEntry(s) ==
  SoloEntry(GAME_SESSIONS[s]["secret_qid"], GAME_SESSIONS[s]["secret_qid"])

\* C27: make_guess answers isCorrect = gameWon = true exactly when the
\* guessed id is the session's secret; a session becomes Won exactly on such
\* a guess and a wrong guess leaves it InProgress; so the last entry of the
\* guess log of a Won session is the secret, with the secret's rank in the
\* ranking.
C27_WonOnSecretGuess ==
  /\ []( ( response.op = "make_guess" /\ response.status = 200 ) =>
           /\ response.isCorrect = response.gameWon
           /\ response.isCorrect =
                (response.qid = GAME_SESSIONS[response.sessionId]["secret_qid"]) )
  /\ [](\A s \in DOMAIN GAME_SESSIONS :
          RoundState(GAME_SESSIONS, s) = "Won" =>
            LET log == GAME_SESSIONS[s]["guesses"]
            IN /\ log # <<>>
               /\ log[Len(log)].qid = GAME_SESSIONS[s]["secret_qid"]
               /\ log[Len(log)].rank = SecretEntry(s).rank)
  /\ [][\A s \in DOMAIN GAME_SESSIONS :
          RoundState(GAME_SESSIONS, s) = "InProgress" =>
            ( RoundState(GAME_SESSIONS', s) = "Won"
              <=> ( /\ response'.op = "make_guess" /\ response'.status = 200
                    /\ response'.sessionId = s
                    /\ response'.qid = GAME_SESSIONS[s]["secret_qid"] ) )]_vars

C27_Witness ==
  /\ response.op = "make_guess" /\ response.status = 200
  /\ response.isCorrect /\ response.gameWon
  /\ RoundState(GAME_SESSIONS, response.sessionId) = "Won"
  /\ LET log == GAME_SESSIONS[response.sessionId]["guesses"]
     IN /\ Len(log) = 2
        /\ log[1].rank = 1 /\ log[1].qid # GAME_SESSIONS[response.sessionId]["secret_qid"]
        /\ log[2].rank = 2

\* C28: a rejected request changes nothing: when make_guess, resign_game,
\* get_ranking or get_match_details fails, for whatever reason, the set of
\* sessions and every session's secret, guess log and flags are as before.
C28_RejectedChangesNothing ==
  [][( response'.op \in SessionOps /\ response'.status # 200 )
       => GAME_SESSIONS' = GAME_SESSIONS]_vars

C28_Witness ==
  /\ response.op = "resign_game" /\ response.status = 400
  /\ RoundState(GAME_SESSIONS, response.sessionId) = "Won"
  /\ Len(GAME_SESSIONS[response.sessionId]["guesses"]) = 2
  /\ \E s \in DOMAIN GAME_SESSIONS : RoundState(GAME_SESSIONS, s) = "InProgress"

\* C29: with the population loaded, resign_game on an InProgress session
\* always succeeds: it returns the secret person with the secret's own
\* ranking entry and leaves the session Resigned with its guess log
\* unchanged; an InProgress session exists only while the population that
\* holds its secret is loaded, so the resignation is one step away from it.
C29_ResignSucceeds ==
  /\ [][\A s \in DOMAIN GAME_SESSIONS :
          ( /\ RoundState(GAME_SESSIONS, s) = "InProgress"
            /\ response'.op = "resign_game" /\ response'.sessionId = s )
          => /\ response'.status = 200
             /\ response'.qid = GAME_SESSIONS[s]["secret_qid"]
             /\ response'.result = <<SecretEntry(s)>>
             /\ RoundState(GAME_SESSIONS', s) = "Resigned"
             /\ GAME_SESSIONS'[s]["guesses"] = GAME_SESSIONS[s]["guesses"]
             /\ GAME_SESSIONS'[s]["secret_qid"] = GAME_SESSIONS[s]["secret_qid"]]_vars
  /\ [](\A s \in DOMAIN GAME_SESSIONS :
          RoundState(GAME_SESSIONS, s) = "InProgress" =>
            /\ phase = "serving"
            /\ GAME_SESSIONS[s]["secret_qid"] \in CacheKeys)

C29_Witness ==
  /\ response.op = "resign_game" /\ response.status = 200
  /\ RoundState(GAME_SESSIONS, response.sessionId) = "Resigned"
  /\ Len(GAME_SESSIONS[response.sessionId]["guesses"]) = 2
  /\ response.result[1].qid = GAME_SESSIONS[response.sessionId]["secret_qid"]
  /\ response.result[1].rank = 2

\* The (candidate, secret) pair of the last get_match_details is scored by
\* the ranking on the fallback path: enriched embeddings are missing for at
\* least one of the two.
DetailOnFallbackPath ==
  ~(IMPROVED_SIMILARITY_AVAILABLE /\ HasEnriched(DetailCandidate.qid)
                                  /\ HasEnriched(DetailSecret.qid))

\* C30: get_match_details always computes the narrative similarity as the
\* plain cosine of the two persons' narrative_vector, whether or not enriched
\* embeddings exist for them; it equals the sim_narrative the ranking reports
\* for the same (candidate, secret) pair whenever the pair is scored on the
\* fallback path.
C30_DetailNarrativeIsCosine ==
  DetailsReturned =>
    /\ response.details[1].narrative_similarity =
         cosine_similarity(DetailCandidate.narrative_vector, DetailSecret.narrative_vector)
    /\ DetailOnFallbackPath =>
         response.details[1].narrative_similarity =
           SoloEntry(DetailSecret.qid, DetailCandidate.qid).sim_narrative

\* An enriched pair whose ranking score differs from the detail view's
\* cosine, in a population that also holds a person without embeddings.
C30_Witness ==
  /\ DetailsReturned
  /\ DetailSecret.qid = "Q1" /\ DetailCandidate.qid = "Q2"
  /\ ~DetailOnFallbackPath
  /\ response.details[1].narrative_similarity
       # SoloEntry("Q1", "Q2").sim_narrative
  /\ \E q \in CacheKeys : ~HasEnriched(q)

====
